---- MODULE Spec2Model ----
(***************************************************************************)
(* A model of codespan-reporting's render tree: the selector trie of the   *)
(* Stylesheet (render_tree/stylesheet/mod.rs) and the writer pass of a     *)
(* Document (render_tree/document.rs).                                     *)
(*                                                                         *)
(* Strings are sequences of one-character strings, so that splitting a     *)
(* selector on spaces is computed and not assumed.  An Option is a         *)
(* sequence of length zero (None) or one (Some).                           *)
(***************************************************************************)
EXTENDS Integers, Sequences, FiniteSets, TLC

VARIABLES
    styles,     \* Stylesheet.styles: the trie, a map from a node's key to its stored style
    names,      \* the argument of the last Stylesheet::get
    found,      \* the result of the last Stylesheet::get
    op,         \* the last Stylesheet operation: "new", "add" or "get"
    log,        \* history: the add calls made so far, in order
    tree,       \* Document.tree of the document being built and written
    nesting,    \* write_with: the stack of open section names
    cursor,     \* write_with: index of the next node of the tree
    sink,       \* the calls received by the writer (WriteColor), in order
    wstate,     \* write_with: "build", "run", "ok", "err" or "panic"
    begun,      \* history: the number of calls the sink had received when the pass began
    parked,     \* the frames of the other write_with call in progress, if any
    arg,        \* history: the last operation that composed the document, with its operand
    conv        \* a Style (style.rs), then its ColorSpec, then the Style made from that

sheetVars == <<styles, names, found, op>>
writeVars == <<tree, nesting, cursor, sink, wstate, begun, parked, arg, conv>>
vars == <<styles, names, found, op, log, tree, nesting, cursor, sink, wstate, begun, parked, arg, conv>>

----------------------------------------------------------------------------
(* Bounds of the model *)

MaxNodes == 3       \* most nodes of the trie below the root; also the longest selector
MaxPath == 2        \* longest path queried of a stylesheet of several rules
MaxOnePath == 4     \* longest path queried of a stylesheet of one rule
MaxLog == 3         \* most add calls of a recorded history
MaxDoc == 4         \* most nodes of a document

----------------------------------------------------------------------------
(* Option *)

NoneOpt == <<>>
Some(x) == <<x>>
IsSome(o) == o # <<>>
Unwrap(o) == o[1]

----------------------------------------------------------------------------
(* Style.  Every slot is either unset or carries a value; an attribute     *)
(* that is explicitly off is a value.                                      *)

Unset == "unset"
Slots == {"fg", "bg", "weight", "underline", "bright"}

EmptyStyle ==
    [fg |-> Unset, bg |-> Unset, weight |-> Unset, underline |-> Unset, bright |-> Unset]

\* Style::union: the right operand overrides the left one slot by slot.
StyleUnion(left, right) ==
    [slot \in Slots |-> IF right[slot] # Unset THEN right[slot] ELSE left[slot]]

\* A union that lets the right style replace the left one whole.
UnionKeepsRight(left, right) == IF IsSome(right) THEN right ELSE left

\* fn union(left: Option<Style>, right: Option<Style>) -> Option<Style>
Union(left, right) ==
    IF ~IsSome(left) /\ ~IsSome(right) THEN NoneOpt
    ELSE IF ~IsSome(right) THEN left
    ELSE IF ~IsSome(left) THEN right
    ELSE Some(StyleUnion(Unwrap(left), Unwrap(right)))

----------------------------------------------------------------------------
(* Style of style.rs: a set of attributes, and a foreground and a          *)
(* background that are each none or some color.  A ColorSpec has a field   *)
(* for each of the five, and set_fg writes the one for the foreground.     *)

Attributes == {"Bold", "Underline", "Bright"}
Colors == {"Red", "Blue"}

\* Style::empty
FlagStyleEmpty == [attributes |-> {}, foreground |-> NoneOpt, background |-> NoneOpt]

\* ColorSpec::new
ColorSpecNew ==
    [fg |-> NoneOpt, bg |-> NoneOpt, bold |-> FALSE, intense |-> FALSE, underline |-> FALSE]

\* Style::from_color_spec
FromColorSpec(spec) ==
    LET a1 == IF spec.bold THEN {"Bold"} ELSE {}
        a2 == IF spec.underline THEN a1 \cup {"Underline"} ELSE a1
        a3 == IF spec.intense THEN a2 \cup {"Bright"} ELSE a2
    IN [attributes |-> a3, foreground |-> spec.fg, background |-> spec.bg]

\* Style::to_color_spec: the background, too, is given to set_fg
ToColorSpec(s) ==
    LET s1 == IF "Bold" \in s.attributes THEN [ColorSpecNew EXCEPT !.bold = TRUE]
              ELSE ColorSpecNew
        s2 == IF "Underline" \in s.attributes THEN [s1 EXCEPT !.underline = TRUE] ELSE s1
        s3 == IF "Bright" \in s.attributes THEN [s2 EXCEPT !.intense = TRUE] ELSE s2
        s4 == IF IsSome(s.foreground) THEN [s3 EXCEPT !.fg = s.foreground] ELSE s3
        s5 == IF IsSome(s.background) THEN [s4 EXCEPT !.fg = s.background] ELSE s4
    IN s5

----------------------------------------------------------------------------
(* Segment *)

Root == <<"Root">>
Star == <<"Star">>
Glob == <<"Glob">>
Name(n) == <<"Name", n>>

\* str::split(' '): the parts between spaces; an empty string has one empty part.
RECURSIVE Split(_)
Split(s) ==
    IF \A i \in 1..Len(s) : s[i] # " " THEN <<s>>
    ELSE LET i == CHOOSE k \in 1..Len(s) :
                      s[k] = " " /\ \A j \in 1..(k - 1) : s[j] # " "
         IN <<SubSeq(s, 1, i - 1)>> \o Split(SubSeq(s, i + 1, Len(s)))

\* The closure of Stylesheet::add that maps a part to its Segment.
ParseSegment(part) ==
    IF part = <<"*", "*">> THEN Glob
    ELSE IF part = <<"*">> THEN Star
    ELSE Name(part)

Segments(name) ==
    LET parts == Split(name) IN [i \in 1..Len(parts) |-> ParseSegment(parts[i])]

----------------------------------------------------------------------------
(* Node.  A node is named by its key, the segments from the root to it;    *)
(* the trie t maps the keys of the nodes that exist to their styles.       *)

RootKey == <<>>

\* Node::new(Segment::Root), as Stylesheet::new builds it
NewSheet == (RootKey :> NoneOpt)

\* Node.segment
SegmentOf(n) == IF n = RootKey THEN Root ELSE n[Len(n)]

\* self.children.get(&seg)
Child(t, n, seg) ==
    IF Append(n, seg) \in DOMAIN t THEN Some(Append(n, seg)) ELSE NoneOpt

\* self.children.is_empty()
NoChildren(t, n) ==
    \A k \in DOMAIN t : ~(Len(k) = Len(n) + 1 /\ SubSeq(k, 1, Len(n)) = n)

\* A terminal that prefers the style the node itself stores.
TerminalOwnStyle(t, n) ==
    LET glob == Child(t, n, Glob) IN
    IF IsSome(t[n]) THEN Some(n)
    ELSE IF ~IsSome(glob)
    THEN IF NoChildren(t, n) THEN Some(n) ELSE NoneOpt
    ELSE glob

\* Node::terminal
Terminal(t, n) ==
    LET glob == Child(t, n, Glob) IN
    IF ~IsSome(glob)
    THEN IF NoChildren(t, n) THEN Some(n) ELSE NoneOpt
    ELSE glob

\* An add that keeps the style a node already stores.
RECURSIVE NodeAddKeepsFirst(_, _, _, _)
NodeAddKeepsFirst(t, n, path, style) ==
    IF path = <<>> THEN (IF IsSome(t[n]) THEN t ELSE [t EXCEPT ![n] = Some(style)])
    ELSE LET child == Append(n, Head(path))
             t1 == IF child \in DOMAIN t THEN t ELSE t @@ (child :> NoneOpt)
         IN NodeAddKeepsFirst(t1, child, Tail(path), style)

\* An add that inserts a new child in the place of the one that is there.
RECURSIVE NodeAddReplacesChild(_, _, _, _)
NodeAddReplacesChild(t, n, path, style) ==
    IF path = <<>> THEN [t EXCEPT ![n] = Some(style)]
    ELSE LET child == Append(n, Head(path))
             kept == {k \in DOMAIN t :
                         ~(Len(k) >= Len(child) /\ SubSeq(k, 1, Len(child)) = child)}
             t1 == [k \in kept \cup {child} |-> IF k = child THEN NoneOpt ELSE t[k]]
         IN NodeAddReplacesChild(t1, child, Tail(path), style)

\* Node::add
RECURSIVE NodeAdd(_, _, _, _)
NodeAdd(t, n, path, style) ==
    IF path = <<>> THEN [t EXCEPT ![n] = Some(style)]
    ELSE LET child == Append(n, Head(path))
             t1 == IF child \in DOMAIN t THEN t ELSE t @@ (child :> NoneOpt)
         IN NodeAdd(t1, child, Tail(path), style)

\* A find_match that never looks past a glob child for the literal.
FindMatchNoSkip(t, n, name) ==
    LET selfGlob == SegmentOf(n) = Glob IN
    [glob |-> IF selfGlob THEN Some(n) ELSE Child(t, n, Glob),
     star |-> Child(t, n, Star),
     skipped_glob |-> NoneOpt,
     literal |-> Child(t, n, Name(name))]

\* A find_match in which a star node absorbs further names as a glob does.
FindMatchStarLoops(t, n, name) ==
    LET selfGlob == SegmentOf(n) = Glob \/ SegmentOf(n) = Star
        glob == IF selfGlob THEN Some(n) ELSE Child(t, n, Glob)
    IN [glob |-> glob,
        star |-> Child(t, n, Star),
        skipped_glob |-> IF ~selfGlob /\ IsSome(glob)
                         THEN Child(t, Unwrap(glob), Name(name)) ELSE NoneOpt,
        literal |-> Child(t, n, Name(name))]

\* Node::find_match
FindMatch(t, n, name) ==
    LET star == Child(t, n, Star)
        literal == Child(t, n, Name(name))
        selfGlob == SegmentOf(n) = Glob
        glob == IF selfGlob THEN Some(n) ELSE Child(t, n, Glob)
        skipped_glob ==
            IF ~selfGlob /\ IsSome(glob)
            THEN Child(t, Unwrap(glob), Name(name))
            ELSE NoneOpt
    IN [glob |-> glob, star |-> star, skipped_glob |-> skipped_glob, literal |-> literal]

\* Node::find
RECURSIVE Find(_, _, _)
Find(t, n, ns) ==
    IF ns = <<>>
    THEN LET terminal == Terminal(t, n) IN
         IF IsSome(terminal) THEN t[Unwrap(terminal)] ELSE NoneOpt
    ELSE LET matches == FindMatch(t, n, Head(ns))
             rest == Tail(ns)
             s0 == NoneOpt
             s1 == IF IsSome(matches.glob)
                   THEN Union(s0, Find(t, Unwrap(matches.glob), rest)) ELSE s0
             s2 == IF IsSome(matches.star)
                   THEN Union(s1, Find(t, Unwrap(matches.star), rest)) ELSE s1
             s3 == IF IsSome(matches.skipped_glob)
                   THEN Union(s2, Find(t, Unwrap(matches.skipped_glob), rest)) ELSE s2
             s4 == IF IsSome(matches.literal)
                   THEN Union(s3, Find(t, Unwrap(matches.literal), rest)) ELSE s3
         IN s4

\* Stylesheet::add, as a function of the trie
SheetAdd(t, name, style) == NodeAdd(t, RootKey, Segments(name), style)

\* Stylesheet::get, as a function of the trie
SheetGet(t, ns) == Find(t, RootKey, ns)

----------------------------------------------------------------------------
(* The rules of a stylesheet and what it means for a rule to match a path. *)

\* The keys that carry a style: each is the segment sequence of a rule.
Rules(t) == {k \in DOMAIN t : IsSome(t[k])}

\* Name matches that one name, Star one level, Glob zero or more levels.
RECURSIVE Matches(_, _)
Matches(p, ns) ==
    IF p = <<>> THEN ns = <<>>
    ELSE IF Head(p) = Glob
    THEN Matches(Tail(p), ns) \/ (ns # <<>> /\ Matches(p, Tail(ns)))
    ELSE /\ ns # <<>>
         /\ (Head(p) = Star \/ Head(p) = Name(Head(ns)))
         /\ Matches(Tail(p), Tail(ns))

MatchingRules(t, ns) == {r \in Rules(t) : Matches(r, ns)}

IsLiteral(r) == \A i \in 1..Len(r) : r[i][1] = "Name"
HasGlob(r) == \E i \in 1..Len(r) : r[i] = Glob
HasStar(r) == \E i \in 1..Len(r) : r[i] = Star
LiteralNames(r) == [i \in 1..Len(r) |-> r[i][2]]

----------------------------------------------------------------------------
(* Inputs *)

A == <<"a">>
B == <<"b">>
C == <<"c">>

RECURSIVE Join(_)
Join(toks) ==
    IF Len(toks) = 1 THEN toks[1] ELSE toks[1] \o <<" ">> \o Join(Tail(toks))

SeqsUpTo(S, lo, hi) == UNION {[1..k -> S] : k \in lo..hi}

Tokens == {A, B, <<"*">>, <<"*", "*">>}
Selectors == {Join(toks) : toks \in SeqsUpTo(Tokens, 1, MaxNodes)}
Paths == SeqsUpTo({A, B}, 0, MaxPath)
OnePaths == SeqsUpTo({A, B, C}, 0, MaxOnePath)

Red == [EmptyStyle EXCEPT !.fg = "red", !.underline = "false"]
BlueBold == [EmptyStyle EXCEPT !.fg = "blue", !.weight = "bold"]
StylePool == {Red, BlueBold, EmptyStyle}

----------------------------------------------------------------------------
(* Stylesheet operations *)

InitSheet ==
    /\ styles = NewSheet
    /\ names = <<>>
    /\ found = NoneOpt
    /\ op = "new"

InitWriter ==
    /\ tree = NoneOpt
    /\ nesting = <<>>
    /\ cursor = 1
    /\ sink = <<>>
    /\ wstate = "build"
    /\ begun = 0
    /\ parked = <<>>
    /\ arg = <<>>
    /\ conv = <<FlagStyleEmpty>>

\* Stylesheet::add.  The result of an earlier get says nothing about the
\* stylesheet the call returns, so it is forgotten.
Add(name, style) ==
    /\ styles' = SheetAdd(styles, name, style)
    /\ op' = "add"
    /\ names' = <<>>
    /\ found' = NoneOpt

\* Stylesheet::get
Get(ns) ==
    /\ found' = SheetGet(styles, ns)
    /\ names' = ns
    /\ op' = "get"
    /\ UNCHANGED styles

\* The trie stays within the bound of the model.
Fits(name) ==
    LET segs == Segments(name)
        new == {i \in 1..Len(segs) : SubSeq(segs, 1, i) \notin DOMAIN styles}
    IN Cardinality(DOMAIN styles) + Cardinality(new) <= MaxNodes + 1

Init == InitSheet /\ InitWriter /\ log = <<>>

\* A get leaves the stylesheet as it is, so a get that directly follows a
\* get reaches nothing that a single get does not: the specifications below
\* take one get at a time between adds.
Next ==
    \/ \E name \in Selectors :
          /\ Fits(name)
          /\ \E style \in StylePool : Add(name, style) /\ UNCHANGED <<log, writeVars>>
    \/ \E ns \in Paths : op # "get" /\ Get(ns) /\ UNCHANGED <<log, writeVars>>

Spec == Init /\ [][Next]_vars

\* A stylesheet of one rule
NextOne ==
    \/ \E name \in Selectors, style \in StylePool :
          op = "new" /\ Add(name, style) /\ UNCHANGED <<log, writeVars>>
    \/ \E ns \in OnePaths : op = "add" /\ Get(ns) /\ UNCHANGED <<log, writeVars>>

SpecOne == Init /\ [][NextOne]_vars

\* A stylesheet of one or two rules of different patterns
NextTwo ==
    \/ \E name \in Selectors :
          /\ Cardinality(Rules(styles)) < 2
          /\ Segments(name) \notin Rules(styles)
          /\ \E style \in {Red, BlueBold} : Add(name, style) /\ UNCHANGED <<log, writeVars>>
    \/ \E ns \in Paths : op = "add" /\ Get(ns) /\ UNCHANGED <<log, writeVars>>

SpecTwo == Init /\ [][NextTwo]_vars

----------------------------------------------------------------------------
(* The stylesheet of test_priority: a glob rule, a star rule and a literal *)
(* rule that match one path.                                               *)

E == <<"e">>

PrioritySelectors ==
    {Join(<<A, <<"*", "*">>, C>>), Join(<<A, B, <<"*">>, C>>), Join(<<A, B, E, C>>)}
PriorityPath == <<A, B, E, C>>

PriorityStyles ==
    {[fg |-> f, bg |-> g, weight |-> w, underline |-> u, bright |-> Unset] :
        f \in {Unset, "red", "blue"}, g \in {Unset, "black"},
        w \in {Unset, "bold"}, u \in {Unset, "true", "false"}}

NextPriority ==
    \/ \E name \in PrioritySelectors :
          /\ Segments(name) \notin Rules(styles)
          /\ \E style \in PriorityStyles : Add(name, style) /\ UNCHANGED <<log, writeVars>>
    \/ op # "get" /\ Get(PriorityPath) /\ UNCHANGED <<log, writeVars>>

SpecPriority == Init /\ [][NextPriority]_vars

----------------------------------------------------------------------------
(* A stylesheet with the history of its add calls *)

LwwSelectors == {Join(toks) : toks \in SeqsUpTo({A, <<"*", "*">>}, 1, 2)}

RECURSIVE Build(_)
Build(l) ==
    IF l = <<>> THEN NewSheet
    ELSE SheetAdd(Build(SubSeq(l, 1, Len(l) - 1)), l[Len(l)].name, l[Len(l)].style)

RemoveAt(l, i) == SubSeq(l, 1, i - 1) \o SubSeq(l, i + 1, Len(l))

NextLww ==
    \/ \E name \in LwwSelectors, style \in {Red, BlueBold} :
          /\ Len(log) < MaxLog
          /\ Add(name, style)
          /\ log' = Append(log, [name |-> name, style |-> style])
          /\ UNCHANGED writeVars
    \/ \E ns \in Paths : op # "get" /\ Get(ns) /\ UNCHANGED <<log, writeVars>>

SpecLww == Init /\ [][NextLww]_vars

----------------------------------------------------------------------------
(* A stylesheet built from any pattern string, with the history of its add *)
(* calls: the patterns include the empty string and strings with a space   *)
(* at either end or two spaces in a row.                                   *)

PatternPool ==
    {<<>>, A, <<"*", "*">>, <<"a", " ", " ", "a">>, <<" ", "a">>, <<"a", " ">>}

\* The paths queried: those of Paths and the path of one empty name
PatternPaths == Paths \cup {<<<<>>>>}

NextPatterns ==
    \/ \E name \in PatternPool, style \in {Red, BlueBold} :
          /\ Len(log) < MaxLog
          /\ Add(name, style)
          /\ log' = Append(log, [name |-> name, style |-> style])
          /\ UNCHANGED writeVars
    \/ \E ns \in PatternPaths : op # "get" /\ Get(ns) /\ UNCHANGED <<log, writeVars>>

SpecPatterns == Init /\ [][NextPatterns]_vars

----------------------------------------------------------------------------
(* Converting a Style to a ColorSpec and back *)

\* Style::add_attributes
StyleAddAttributes(a) ==
    /\ Len(conv) = 1
    /\ conv' = <<[conv[1] EXCEPT !.attributes = @ \cup {a}]>>

\* Style::fg
StyleFg(color) ==
    /\ Len(conv) = 1
    /\ conv' = <<[conv[1] EXCEPT !.foreground = Some(color)]>>

\* Style::bg
StyleBg(color) ==
    /\ Len(conv) = 1
    /\ conv' = <<[conv[1] EXCEPT !.background = Some(color)]>>

\* to_color_spec of the style
StyleToColorSpec ==
    /\ Len(conv) = 1
    /\ conv' = <<conv[1], ToColorSpec(conv[1])>>

\* from_color_spec of that ColorSpec
StyleFromColorSpec ==
    /\ Len(conv) = 2
    /\ conv' = <<conv[1], conv[2], FromColorSpec(conv[2])>>

NextStyle ==
    \/ \E a \in Attributes :
          StyleAddAttributes(a) /\ UNCHANGED <<sheetVars, log, tree, nesting, cursor, sink, wstate, begun, parked, arg>>
    \/ \E color \in Colors :
          StyleFg(color) /\ UNCHANGED <<sheetVars, log, tree, nesting, cursor, sink, wstate, begun, parked, arg>>
    \/ \E color \in Colors :
          StyleBg(color) /\ UNCHANGED <<sheetVars, log, tree, nesting, cursor, sink, wstate, begun, parked, arg>>
    \/ StyleToColorSpec /\ UNCHANGED <<sheetVars, log, tree, nesting, cursor, sink, wstate, begun, parked, arg>>
    \/ StyleFromColorSpec /\ UNCHANGED <<sheetVars, log, tree, nesting, cursor, sink, wstate, begun, parked, arg>>

SpecStyle == Init /\ [][NextStyle]_vars

----------------------------------------------------------------------------
(* Document and its writer pass.  A Node is a tuple whose first element is *)
(* the variant; a call received by the sink carries the index of the node  *)
(* that caused it (0 for the reset that opens the pass).                   *)

Text(str) == <<"Text", str>>
OpenSection(name) == <<"OpenSection", name>>
CloseSection == <<"CloseSection">>
Newline == <<"Newline">>

P == <<"p">>
G == <<"g">>

NodePool ==
    {Text(<<"x">>), Text(<<>>), OpenSection(E), OpenSection(P), OpenSection(G),
     CloseSection, Newline}

\* 'e p' -> fg red, '** g' -> fg blue
FgRed == [EmptyStyle EXCEPT !.fg = "red"]
FgBlue == [EmptyStyle EXCEPT !.fg = "blue"]
ScenarioSheet ==
    SheetAdd(SheetAdd(NewSheet, Join(<<E, P>>), FgRed), Join(<<<<"*", "*">>, G>>), FgBlue)
WriteSheets == {NewSheet, ScenarioSheet}

\* The nodes of the tree; an absent tree has none.
Nodes == IF IsSome(tree) THEN Unwrap(tree) ELSE <<>>

\* Document::add_node (initialize_tree, then push)
AddNode(node) ==
    /\ wstate = "build"
    /\ tree' = Some(Append(Nodes, node))
    /\ UNCHANGED <<nesting, cursor, sink, wstate, begun>>

\* write_with that finds the stack as the last pass left it.
WriteBeginKeepsStack ==
    /\ wstate = "build"
    /\ nesting' = nesting
    /\ cursor' = 1
    /\ \E fails \in BOOLEAN :
          IF fails
          THEN wstate' = "err" /\ sink' = sink
          ELSE /\ sink' = Append(sink, <<"reset", 0>>)
               /\ wstate' = IF IsSome(tree) THEN "run" ELSE "ok"
    /\ begun' = Len(sink)
    /\ UNCHANGED tree

\* write_with up to the loop: the stack is created, the sink is reset, and
\* a document without a tree returns Ok at once.
WriteBegin ==
    /\ wstate = "build"
    /\ nesting' = <<>>
    /\ cursor' = 1
    /\ \E fails \in BOOLEAN :
          IF fails
          THEN wstate' = "err" /\ sink' = sink
          ELSE /\ sink' = Append(sink, <<"reset", 0>>)
               /\ wstate' = IF IsSome(tree) THEN "run" ELSE "ok"
    /\ begun' = Len(sink)
    /\ UNCHANGED tree

Item == Nodes[cursor]
InLoop == wstate = "run" /\ cursor <= Len(Nodes)

\* The call that adopts a resolved style: set_style, or reset for none.
StyleCall(at, style) ==
    IF IsSome(style) THEN <<"set_style", at, Unwrap(style)>> ELSE <<"reset", at>>

\* A Text arm whose lookup keeps the style it resolved in the root node.
WriteTextCaches ==
    /\ InLoop
    /\ Item[1] = "Text"
    /\ IF Len(Item[2]) # 0
       THEN LET style == SheetGet(styles, nesting) IN
            /\ names' = nesting
            /\ found' = style
            /\ op' = "get"
            /\ styles' = [styles EXCEPT ![RootKey] = style]
            /\ \E done \in 0..2 :
                  /\ sink' = sink \o SubSeq(<<StyleCall(cursor, style),
                                               <<"write", cursor, Item[2]>>>>, 1, done)
                  /\ IF done = 2
                     THEN wstate' = wstate /\ cursor' = cursor + 1
                     ELSE wstate' = "err" /\ cursor' = cursor
       ELSE /\ cursor' = cursor + 1
            /\ UNCHANGED <<styles, names, found, op, sink, wstate>>
    /\ UNCHANGED <<tree, nesting, begun>>

\* A Text arm that writes the string only when the stylesheet has a style
\* for it.
WriteTextNeedsStyle ==
    /\ InLoop
    /\ Item[1] = "Text"
    /\ IF Len(Item[2]) # 0 /\ IsSome(SheetGet(styles, nesting))
       THEN LET style == SheetGet(styles, nesting) IN
            /\ names' = nesting
            /\ found' = style
            /\ op' = "get"
            /\ \E done \in 0..2 :
                  /\ sink' = sink \o SubSeq(<<StyleCall(cursor, style),
                                               <<"write", cursor, Item[2]>>>>, 1, done)
                  /\ IF done = 2
                     THEN wstate' = wstate /\ cursor' = cursor + 1
                     ELSE wstate' = "err" /\ cursor' = cursor
       ELSE /\ cursor' = cursor + 1
            /\ UNCHANGED <<names, found, op, sink, wstate>>
    /\ UNCHANGED <<styles, tree, nesting, begun>>

\* Node::Text
WriteText ==
    /\ InLoop
    /\ Item[1] = "Text"
    /\ IF Len(Item[2]) # 0
       THEN LET style == SheetGet(styles, nesting) IN
            /\ names' = nesting
            /\ found' = style
            /\ op' = "get"
            /\ \E done \in 0..2 :
                  /\ sink' = sink \o SubSeq(<<StyleCall(cursor, style),
                                               <<"write", cursor, Item[2]>>>>, 1, done)
                  /\ IF done = 2
                     THEN wstate' = wstate /\ cursor' = cursor + 1
                     ELSE wstate' = "err" /\ cursor' = cursor
       ELSE /\ cursor' = cursor + 1
            /\ UNCHANGED <<names, found, op, sink, wstate>>
    /\ UNCHANGED <<styles, tree, nesting, begun>>

\* Node::OpenSection
WriteOpenSection ==
    /\ InLoop
    /\ Item[1] = "OpenSection"
    /\ nesting' = Append(nesting, Item[2])
    /\ cursor' = cursor + 1
    /\ UNCHANGED <<sheetVars, tree, sink, wstate, begun>>

\* A CloseSection that leaves the stack as it is.
WriteCloseSectionKeeps ==
    /\ InLoop
    /\ Item[1] = "CloseSection"
    /\ cursor' = cursor + 1
    /\ UNCHANGED <<sheetVars, tree, sink, nesting, wstate, begun>>

\* A CloseSection that empties the stack.
WriteCloseSectionClears ==
    /\ InLoop
    /\ Item[1] = "CloseSection"
    /\ IF nesting = <<>>
       THEN wstate' = "panic" /\ UNCHANGED <<nesting, cursor>>
       ELSE nesting' = <<>> /\ cursor' = cursor + 1 /\ wstate' = wstate
    /\ UNCHANGED <<sheetVars, tree, sink, begun>>

\* Node::CloseSection: pop, or panic on an empty stack
WriteCloseSection ==
    /\ InLoop
    /\ Item[1] = "CloseSection"
    /\ IF nesting = <<>>
       THEN wstate' = "panic" /\ UNCHANGED <<nesting, cursor>>
       ELSE /\ nesting' = SubSeq(nesting, 1, Len(nesting) - 1)
            /\ cursor' = cursor + 1
            /\ wstate' = wstate
    /\ UNCHANGED <<sheetVars, tree, sink, begun>>

\* A Newline arm that writes the terminator in the style in effect.
WriteNewlineUnstyled ==
    /\ InLoop
    /\ Item[1] = "Newline"
    /\ \E done \in 0..1 :
          /\ sink' = sink \o SubSeq(<<<<"write", cursor, <<"\n">>>>>>, 1, done)
          /\ IF done = 1
             THEN wstate' = wstate /\ cursor' = cursor + 1
             ELSE wstate' = "err" /\ cursor' = cursor
    /\ UNCHANGED <<sheetVars, tree, nesting, begun>>

\* A Newline arm that goes on to the next node after a call that failed.
WriteNewlineSwallowsError ==
    /\ InLoop
    /\ Item[1] = "Newline"
    /\ \E done \in 0..2 :
          sink' = sink \o SubSeq(<<<<"reset", cursor>>,
                                    <<"write", cursor, <<"\n">>>>>>, 1, done)
    /\ cursor' = cursor + 1
    /\ UNCHANGED <<sheetVars, tree, nesting, wstate, begun>>

\* Node::Newline
WriteNewline ==
    /\ InLoop
    /\ Item[1] = "Newline"
    /\ \E done \in 0..2 :
          /\ sink' = sink \o SubSeq(<<<<"reset", cursor>>,
                                       <<"write", cursor, <<"\n">>>>>>, 1, done)
          /\ IF done = 2
             THEN wstate' = wstate /\ cursor' = cursor + 1
             ELSE wstate' = "err" /\ cursor' = cursor
    /\ UNCHANGED <<sheetVars, tree, nesting, begun>>

\* The loop is over: Ok(())
WriteReturn ==
    /\ wstate = "run"
    /\ cursor > Len(Nodes)
    /\ wstate' = "ok"
    /\ UNCHANGED <<sheetVars, tree, nesting, cursor, sink, begun>>

InitWrite ==
    /\ styles \in WriteSheets
    /\ names = <<>>
    /\ found = NoneOpt
    /\ op = "new"
    /\ log = <<>>
    /\ InitWriter

NextWrite ==
    \/ \E node \in NodePool :
          Len(Nodes) < MaxDoc /\ AddNode(node) /\ UNCHANGED <<sheetVars, log, parked, arg, conv>>
    \/ WriteBegin /\ UNCHANGED <<sheetVars, log, parked, arg, conv>>
    \/ WriteText /\ UNCHANGED <<log, parked, arg, conv>>
    \/ WriteOpenSection /\ UNCHANGED <<log, parked, arg, conv>>
    \/ WriteCloseSection /\ UNCHANGED <<log, parked, arg, conv>>
    \/ WriteNewline /\ UNCHANGED <<log, parked, arg, conv>>
    \/ WriteReturn /\ UNCHANGED <<log, parked, arg, conv>>

SpecWrite == InitWrite /\ [][NextWrite]_vars

----------------------------------------------------------------------------
(* Several passes, one after the other, on the same sink *)

MaxPassDoc == 2     \* most nodes of a document written to a shared sink
MaxBegun == 0       \* a further pass follows a pass that found at most this many calls on the sink

PassNodePool == {Text(<<"x">>), OpenSection(E), CloseSection, Newline}

\* 'e' -> fg red
PassSheet == SheetAdd(NewSheet, Join(<<E>>), FgRed)

\* The caller is done with a write_with that returned, and starts a new
\* document (Document::empty()) for the same sink.  The frame of the call
\* that returned is dead: what it held is what the next call must not see.
NewPass ==
    /\ wstate \in {"ok", "err"}
    /\ begun <= MaxBegun
    /\ tree' = NoneOpt
    /\ wstate' = "build"
    /\ UNCHANGED <<nesting, cursor, sink, begun>>

InitPasses ==
    /\ styles = PassSheet
    /\ names = <<>>
    /\ found = NoneOpt
    /\ op = "new"
    /\ log = <<>>
    /\ InitWriter

NextPasses ==
    \/ \E node \in PassNodePool :
          Len(Nodes) < MaxPassDoc /\ AddNode(node) /\ UNCHANGED <<sheetVars, log, parked, arg, conv>>
    \/ WriteBegin /\ UNCHANGED <<sheetVars, log, parked, arg, conv>>
    \/ WriteText /\ UNCHANGED <<log, parked, arg, conv>>
    \/ WriteOpenSection /\ UNCHANGED <<log, parked, arg, conv>>
    \/ WriteCloseSection /\ UNCHANGED <<log, parked, arg, conv>>
    \/ WriteNewline /\ UNCHANGED <<log, parked, arg, conv>>
    \/ WriteReturn /\ UNCHANGED <<log, parked, arg, conv>>
    \/ NewPass /\ UNCHANGED <<sheetVars, log, parked, arg, conv>>

SpecPasses == InitPasses /\ [][NextPasses]_vars

----------------------------------------------------------------------------
(* Two passes in progress at once, each over its own document and into    *)
(* its own sink, with one stylesheet.  The variables of the writer are the *)
(* frames of the call that takes the next step; the frames of the other    *)
(* call are parked.                                                        *)

Frames == <<tree, nesting, cursor, sink, wstate, begun>>

\* The other call takes the next step.
Switch ==
    /\ parked # <<>>
    /\ parked' = Frames
    /\ tree' = parked[1]
    /\ nesting' = parked[2]
    /\ cursor' = parked[3]
    /\ sink' = parked[4]
    /\ wstate' = parked[5]
    /\ begun' = parked[6]

InitShared ==
    /\ styles = PassSheet
    /\ names = <<>>
    /\ found = NoneOpt
    /\ op = "new"
    /\ log = <<>>
    /\ tree = NoneOpt
    /\ nesting = <<>>
    /\ cursor = 1
    /\ sink = <<>>
    /\ wstate = "build"
    /\ begun = 0
    /\ parked = <<NoneOpt, <<>>, 1, <<>>, "build", 0>>
    /\ arg = <<>>
    /\ conv = <<FlagStyleEmpty>>

NextShared ==
    \/ \E node \in PassNodePool :
          Len(Nodes) < MaxPassDoc /\ AddNode(node) /\ UNCHANGED <<sheetVars, log, parked, arg, conv>>
    \/ WriteBegin /\ UNCHANGED <<sheetVars, log, parked, arg, conv>>
    \/ WriteText /\ UNCHANGED <<log, parked, arg, conv>>
    \/ WriteOpenSection /\ UNCHANGED <<log, parked, arg, conv>>
    \/ WriteCloseSection /\ UNCHANGED <<log, parked, arg, conv>>
    \/ WriteNewline /\ UNCHANGED <<log, parked, arg, conv>>
    \/ WriteReturn /\ UNCHANGED <<log, parked, arg, conv>>
    \/ Switch /\ UNCHANGED <<sheetVars, log, arg, conv>>

SpecShared == InitShared /\ [][NextShared]_vars

----------------------------------------------------------------------------
(* Composing a Document.  A Document value is its tree: none, or some      *)
(* sequence of nodes.                                                      *)

DocumentEmpty == NoneOpt

DocNodes(d) == IF IsSome(d) THEN Unwrap(d) ELSE <<>>

\* Document::add_node on a value
DocAddNodeReplaces(d, node) == Some(<<node>>)

DocAddNode(d, node) == Some(Append(DocNodes(d), node))

\* An extend_nodes that pushes only the first of the nodes.
DocExtendNodesFirstOnly(d, other) ==
    IF Len(other) > 0
    THEN Some(Append(DocNodes(d), other[1]))
    ELSE d

\* An extend_nodes that creates the tree even for no nodes.
DocExtendNodesAlwaysInit(d, other) == Some(DocNodes(d) \o other)

\* Document::extend_nodes
DocExtendNodes(d, other) ==
    IF Len(other) > 0
    THEN Some(DocNodes(d) \o other)
    ELSE d

\* An extend that loses the fragment given to a document without a tree.
DocExtendLosesFragment(d, fragment) ==
    IF IsSome(d) /\ IsSome(fragment) THEN DocExtendNodes(d, Unwrap(fragment))
    ELSE IF IsSome(d) THEN d
    ELSE DocumentEmpty

\* Document::extend
DocExtend(d, fragment) ==
    IF IsSome(d) /\ IsSome(fragment) THEN DocExtendNodes(d, Unwrap(fragment))
    ELSE IF IsSome(d) THEN d
    ELSE IF IsSome(fragment) THEN Some(Unwrap(fragment))
    ELSE DocumentEmpty

\* The values that implement Render, as tuples whose first element says
\* which implementation applies.
NodeR(node) == <<"node", node>>                      \* a Node
TextR(str) == <<"text", str>>                        \* a value that implements Display
DocR(d) == <<"doc", d>>                              \* a Document
SectionR(name, fragment) == <<"section", name, fragment>>    \* Section<Fragment>
SectionBlock(name, callback) == <<"section_block", name, callback>>  \* the Section block helper
LineR(fragment) == <<"line", fragment>>              \* Line<Fragment>
LineBlock(item) == <<"line_block", item>>            \* Line(item), a OnceBlock
EachR(items, callback) == <<"each", items, callback>>
JoinR(items, joiner, callback) == <<"join", items, joiner, callback>>
CombineR(left, right) == <<"combine", left, right>>

\* The callbacks given to a block: |item, doc| doc.add(item),
\* |item, doc| doc.add(Line(item)) and |_, doc| doc.add(r).
CallbackAdd == <<"add">>
CallbackLine == <<"line">>
CallbackPut(r) == <<"put", r>>

RECURSIVE Render(_, _)
RECURSIVE DocAdd(_, _)
RECURSIVE Callback(_, _, _)
RECURSIVE EachRender(_, _, _)
RECURSIVE JoinLoop(_, _, _, _, _)
RECURSIVE EachRenderReversed(_, _, _)
RECURSIVE JoinLoopTrailing(_, _, _, _, _)

\* Render::into_fragment
IntoFragment(r) == Render(r, DocumentEmpty)

\* Document::add
DocAdd(d, r) == DocExtend(d, IntoFragment(r))

Callback(callback, item, into) ==
    CASE callback[1] = "add" -> DocAdd(into, TextR(item))
      [] callback[1] = "line" -> DocAdd(into, LineBlock(TextR(item)))
      [] callback[1] = "put" -> DocAdd(into, callback[2])

\* IfSome: a function from an option to a Document
IfSome(option) ==
    IF IsSome(option) THEN Render(Unwrap(option), DocumentEmpty) ELSE DocumentEmpty

\* An Each that hands the items to the callback last to first.
EachRenderReversed(items, callback, into) ==
    IF items = <<>> THEN into
    ELSE Callback(callback, Head(items), EachRenderReversed(Tail(items), callback, into))

\* Each::render: the loop over the items, first to last
EachRender(items, callback, into) ==
    IF items = <<>> THEN into
    ELSE EachRender(Tail(items), callback, Callback(callback, Head(items), into))

\* A Join that adds the joiner after every item.
JoinLoopTrailing(items, joiner, callback, is_first, into) ==
    IF items = <<>> THEN into
    ELSE JoinLoopTrailing(Tail(items), joiner, callback, FALSE,
                          DocAdd(Callback(callback, Head(items), into), TextR(joiner)))

\* Join::render: the loop over the items, with the is_first flag
JoinLoop(items, joiner, callback, is_first, into) ==
    IF items = <<>> THEN into
    ELSE LET joined == IF is_first THEN into ELSE DocAdd(into, TextR(joiner)) IN
         JoinLoop(Tail(items), joiner, callback, FALSE,
                  Callback(callback, Head(items), joined))

\* A Section that forgets its CloseSection.
RenderSectionUnclosed(name, fragment, into) ==
    DocAdd(DocAdd(into, NodeR(OpenSection(name))), fragment)

\* Render for Section<Fragment>
RenderSection(name, fragment, into) ==
    DocAdd(DocAdd(DocAdd(into, NodeR(OpenSection(name))), fragment), NodeR(CloseSection))

\* OnceBlockHelper::render for Section
SectionRender(name, callback, into) ==
    DocAddNode(Callback(callback, <<>>, DocAddNode(into, OpenSection(name))), CloseSection)

\* Render for Combine
RenderCombine(left, right, into) == DocAdd(DocAdd(into, left), right)

\* Render::render, by implementation
Render(r, into) ==
    CASE r[1] = "node" -> DocAddNode(into, r[2])
      [] r[1] = "text" -> DocAdd(into, NodeR(Text(r[2])))
      [] r[1] = "doc" -> DocExtend(into, r[2])
      [] r[1] = "section" -> RenderSection(r[2], r[3], into)
      [] r[1] = "section_block" -> SectionRender(r[2], r[3], into)
      [] r[1] = "line" -> DocAdd(DocAdd(into, r[2]), NodeR(Newline))
      [] r[1] = "line_block" -> DocAddNode(Render(r[2], into), Newline)
      [] r[1] = "each" -> EachRender(r[2], r[3], into)
      [] r[1] = "join" -> JoinLoop(r[2], r[3], r[4], TRUE, into)
      [] r[1] = "combine" -> RenderCombine(r[2], r[3], into)

----------------------------------------------------------------------------
(* The specification of composing: the operations of Document and the     *)
(* implementations of Render, applied to the document being built.        *)

MaxItems == 3       \* most items given to Each and to Join
MaxBase == 1        \* most nodes of a document that is composed further

X == <<"x">>
Y == <<"y">>
Comma == <<",">>

ItemSeqs == SeqsUpTo({X, Y}, 0, MaxItems)

DocPool ==
    {DocumentEmpty, Some(<<Text(X)>>), Some(<<OpenSection(E), Text(X)>>),
     Some(<<CloseSection, Newline>>)}

TextPool == {TextR(X), TextR(<<>>)}
IterCallbacks == {CallbackAdd, CallbackLine, CallbackPut(SectionR(E, TextR(X)))}
OnceCallbacks == {CallbackPut(r) : r \in TextPool}
AssocPool == {TextR(X), TextR(Y), LineR(TextR(X))}

\* Values built from text, Line, Section, Each, Join, Combine and IfSome only
BlockPool ==
    TextPool
    \cup {SectionR(n, t) : n \in {E, P}, t \in TextPool}
    \cup {SectionBlock(E, c) : c \in OnceCallbacks}
    \cup {LineR(t) : t \in TextPool}
    \cup {LineBlock(t) : t \in TextPool}
    \cup {EachR(items, c) : items \in ItemSeqs, c \in IterCallbacks}
    \cup {JoinR(items, Comma, c) : items \in ItemSeqs, c \in IterCallbacks}
    \cup {DocR(IfSome(o)) : o \in {NoneOpt} \cup {Some(t) : t \in TextPool}}
    \cup {CombineR(CombineR(x, y), z) : x \in AssocPool, y \in AssocPool, z \in AssocPool}
    \cup {CombineR(x, CombineR(y, z)) : x \in AssocPool, y \in AssocPool, z \in AssocPool}
    \cup {SectionR(E, SectionR(P, TextR(X))),
          SectionR(E, JoinR(<<X, Y>>, Comma, CallbackAdd)),
          SectionBlock(P, CallbackPut(EachR(<<X, Y>>, CallbackLine)))}

\* Values that hold a Node or a Document written by hand
RawPool ==
    {NodeR(n) : n \in PassNodePool}
    \cup {DocR(d) : d \in DocPool}
    \cup {SectionR(E, NodeR(CloseSection)),
          SectionR(E, DocR(Some(<<OpenSection(P), Text(X)>>))),
          CombineR(NodeR(OpenSection(E)), TextR(X))}

RenderPool == BlockPool \cup RawPool

\* Document::add_node, recorded
ComposeAddNode(node) ==
    /\ AddNode(node)
    /\ arg' = <<"add_node", node>>

\* Document::extend_nodes
ComposeExtendNodes(other) ==
    /\ wstate = "build"
    /\ tree' = DocExtendNodes(tree, other)
    /\ arg' = <<"extend_nodes", other>>
    /\ UNCHANGED <<nesting, cursor, sink, wstate, begun>>

\* Document::extend
ComposeExtend(fragment) ==
    /\ wstate = "build"
    /\ tree' = DocExtend(tree, fragment)
    /\ arg' = <<"extend", fragment>>
    /\ UNCHANGED <<nesting, cursor, sink, wstate, begun>>

\* Document::add
ComposeAdd(r) ==
    /\ wstate = "build"
    /\ tree' = DocAdd(tree, r)
    /\ arg' = <<"add", r>>
    /\ UNCHANGED <<nesting, cursor, sink, wstate, begun>>

\* Render::render into the document
ComposeRender(r) ==
    /\ wstate = "build"
    /\ tree' = Render(r, tree)
    /\ arg' = <<"render", r>>
    /\ UNCHANGED <<nesting, cursor, sink, wstate, begun>>

\* A document of more than MaxBase nodes is not composed further.
Composable == Len(Nodes) <= MaxBase

NextCompose ==
    \/ \E node \in PassNodePool :
          Composable /\ ComposeAddNode(node) /\ UNCHANGED <<sheetVars, log, parked, conv>>
    \/ \E d \in DocPool :
          Composable /\ ComposeExtendNodes(DocNodes(d)) /\ UNCHANGED <<sheetVars, log, parked, conv>>
    \/ \E d \in DocPool :
          Composable /\ ComposeExtend(d) /\ UNCHANGED <<sheetVars, log, parked, conv>>
    \/ \E r \in RenderPool :
          Composable /\ ComposeAdd(r) /\ UNCHANGED <<sheetVars, log, parked, conv>>
    \/ \E r \in RenderPool :
          Composable /\ ComposeRender(r) /\ UNCHANGED <<sheetVars, log, parked, conv>>

SpecCompose == Init /\ [][NextCompose]_vars

----------------------------------------------------------------------------
(* Claims about Stylesheet::get *)

\* The style a slot-setting rule r stores
StyleOf(r) == Unwrap(styles[r])

\* C1: for every rule whose selector has only literal segments, get on the
\* path of exactly those names returns a style, and returns the rule's own
\* style when no other rule matches that path.
C1_LiteralRuleIsFound ==
    op = "get" =>
        \A r \in Rules(styles) :
            (IsLiteral(r) /\ LiteralNames(r) = names) =>
                /\ IsSome(found)
                /\ (MatchingRules(styles, names) = {r} => found = styles[r])

\* C3: when two rules match the path and both set a slot, the result carries
\* the value of the rule of higher specificity: an all-literal rule outranks
\* a rule with a star, a rule with a star and no glob outranks a rule with a
\* glob.
Outranks(r1, r2) ==
    \/ IsLiteral(r1) /\ HasStar(r2)
    \/ HasStar(r1) /\ ~HasGlob(r1) /\ HasGlob(r2)

C3_HigherSpecificityWins ==
    op = "get" =>
        \A r1 \in MatchingRules(styles, names), r2 \in MatchingRules(styles, names) :
            \A slot \in Slots :
                (/\ Outranks(r1, r2)
                 /\ StyleOf(r1)[slot] # Unset
                 /\ StyleOf(r2)[slot] # Unset)
                => (IsSome(found) /\ Unwrap(found)[slot] = StyleOf(r1)[slot])

\* C4: a rule of literal segments followed by a trailing glob applies to
\* every path that starts with those literals: get returns a style, and a
\* slot the rule sets has the rule's value or that of another matching rule.
IsTrailingGlob(r) ==
    /\ Len(r) >= 2
    /\ r[Len(r)] = Glob
    /\ IsLiteral(SubSeq(r, 1, Len(r) - 1))

StartsWith(ns, q) == Len(ns) >= Len(q) /\ SubSeq(ns, 1, Len(q)) = q

C4_TrailingGlobApplies ==
    op = "get" =>
        \A r \in Rules(styles) :
            (/\ IsTrailingGlob(r)
             /\ StartsWith(names, LiteralNames(SubSeq(r, 1, Len(r) - 1))))
            => /\ IsSome(found)
               /\ \A slot \in Slots :
                      StyleOf(r)[slot] # Unset =>
                          \/ Unwrap(found)[slot] = StyleOf(r)[slot]
                          \/ \E r2 \in MatchingRules(styles, names) \ {r} :
                                 Unwrap(found)[slot] = StyleOf(r2)[slot]

\* C8: get returns none exactly when no rule matches the path, and a style,
\* possibly the empty one, when some rule matches.
C8_NoneIffNoRuleMatches ==
    op = "get" => (IsSome(found) <=> MatchingRules(styles, names) # {})

\* get never reports a style for a path that no rule matches.
FoundOnlyIfMatched ==
    op = "get" => (IsSome(found) => MatchingRules(styles, names) # {})

----------------------------------------------------------------------------
(* Claims about a stylesheet of one rule *)

OneRule == CHOOSE r \in Rules(styles) : TRUE

\* C6: with exactly one rule p -> S, get returns Some(S) exactly when the
\* path matches p, and none otherwise.
C6_OneRuleMatchesExactly ==
    (op = "get" /\ Cardinality(Rules(styles)) = 1) =>
        found = (IF Matches(OneRule, names) THEN styles[OneRule] ELSE NoneOpt)

\* With every glob of the one rule followed by a literal or ending the rule,
\* get agrees with the pattern semantics.
GlobBeforeLiteral(r) == \A i \in 1..(Len(r) - 1) : r[i] = Glob => r[i + 1][1] = "Name"

OneRuleGlobBeforeLiteral ==
    (op = "get" /\ Cardinality(Rules(styles)) = 1 /\ GlobBeforeLiteral(OneRule)) =>
        found = (IF Matches(OneRule, names) THEN styles[OneRule] ELSE NoneOpt)

C7_StarIsOneLevel ==
    \A x \in {A, B}, y \in {A, B} :
        (/\ op = "get"
         /\ Rules(styles) = {<<Name(x), Star, Name(y)>>}
         /\ Len(names) \in 2..4
         /\ names[1] = x
         /\ names[Len(names)] = y)
        => found = (IF Len(names) = 3
                    THEN styles[<<Name(x), Star, Name(y)>>]
                    ELSE NoneOpt)

C7_Witness ==
    /\ op = "get"
    /\ Rules(styles) = {<<Name(A), Star, Name(B)>>}
    /\ names = <<A, C, C, B>>
    /\ found = NoneOpt

----------------------------------------------------------------------------
(* Claims about the cascade and about insertion *)

RuleC2Glob == <<Name(A), Glob, Name(C)>>
RuleC2Star == <<Name(A), Name(B), Star, Name(C)>>
RuleC2Literal == <<Name(A), Name(B), Name(E), Name(C)>>

\* C2: when 'a ** c' -> S1, 'a b * c' -> S2 and 'a b e c' -> S3 are the rules,
\* get on [a, b, e, c] returns, slot by slot, the value of S3 if S3 sets the
\* slot, else that of S2 if S2 sets it, else that of S1.
C2_PriorityMerge ==
    (/\ op = "get"
     /\ names = PriorityPath
     /\ Rules(styles) = {RuleC2Glob, RuleC2Star, RuleC2Literal})
    => found = Some([slot \in Slots |->
                  IF StyleOf(RuleC2Literal)[slot] # Unset
                  THEN StyleOf(RuleC2Literal)[slot]
                  ELSE IF StyleOf(RuleC2Star)[slot] # Unset
                  THEN StyleOf(RuleC2Star)[slot]
                  ELSE StyleOf(RuleC2Glob)[slot]])

C2_Witness ==
    /\ op = "get"
    /\ names = PriorityPath
    /\ Rules(styles) = {RuleC2Glob, RuleC2Star, RuleC2Literal}
    /\ StyleOf(RuleC2Glob) = [EmptyStyle EXCEPT !.fg = "blue", !.weight = "bold"]
    /\ StyleOf(RuleC2Star) = [EmptyStyle EXCEPT !.underline = "true", !.bg = "black"]
    /\ StyleOf(RuleC2Literal) = [EmptyStyle EXCEPT !.fg = "red", !.underline = "false"]
    /\ found = Some([EmptyStyle EXCEPT !.fg = "red", !.bg = "black",
                                      !.underline = "false", !.weight = "bold"])

\* C9: after add(p, S1) and a later add(p, S2), every get returns what it
\* returns on the stylesheet built without the add(p, S1) call, and an add
\* leaves the style stored for every other selector as it was.
C9_GetIgnoresOverwritten ==
    op = "get" =>
        \A i \in 1..Len(log), j \in 1..Len(log) :
            (i < j /\ log[i].name = log[j].name) =>
                found = SheetGet(Build(RemoveAt(log, i)), names)

C9_AddKeepsOthers ==
    Len(log') = Len(log) + 1 =>
        \A k \in DOMAIN styles :
            k # Segments(log'[Len(log')].name) => styles'[k] = styles[k]

C9_LastWriteWins == [](C9_GetIgnoresOverwritten) /\ [][C9_AddKeepsOthers]_vars

C9_Witness ==
    /\ op = "get"
    /\ Len(log) = 3
    /\ log[1].name = log[3].name
    /\ log[1].name # log[2].name
    /\ log[1].style # log[3].style
    /\ found = Some(log[3].style)

----------------------------------------------------------------------------
(* Claims about the writer pass *)

\* The number of nodes of variant v among nodes lo..hi
RECURSIVE CountOf(_, _, _, _)
CountOf(nodes, v, lo, hi) ==
    IF lo > hi THEN 0
    ELSE (IF nodes[hi][1] = v THEN 1 ELSE 0) + CountOf(nodes, v, lo, hi - 1)

\* The section opened at node j is open at node i: no prefix of the nodes
\* between them closes more sections than it opens.
OpenAcross(nodes, j, i) ==
    /\ nodes[j][1] = "OpenSection"
    /\ \A m \in (j + 1)..(i - 1) :
          CountOf(nodes, "CloseSection", j + 1, m) <= CountOf(nodes, "OpenSection", j + 1, m)

\* The names of the sections open at node i, outermost first
RECURSIVE OpenFrom(_, _, _)
OpenFrom(nodes, j, i) ==
    IF j >= i THEN <<>>
    ELSE (IF OpenAcross(nodes, j, i) THEN <<nodes[j][2]>> ELSE <<>>)
         \o OpenFrom(nodes, j + 1, i)

OpenAt(nodes, i) == OpenFrom(nodes, 1, i)

\* C10: every text written for a Text node is preceded, in the calls the
\* sink receives, by the call adopting get(names of the sections open at
\* that node): set_style of that style, or reset when get returns none.
C10_TextStyledByOpenSections ==
    \A k \in 1..Len(sink) :
        (sink[k][1] = "write" /\ Nodes[sink[k][2]][1] = "Text") =>
            /\ k > 1
            /\ sink[k - 1] =
                   StyleCall(sink[k][2], SheetGet(styles, OpenAt(Nodes, sink[k][2])))

\* Text inside e > p was written red, and the pass returned Ok.
C10_Witness ==
    /\ wstate = "ok"
    /\ Nodes = <<OpenSection(E), OpenSection(P), Text(<<"x">>), CloseSection>>
    /\ sink = <<<<"reset", 0>>, <<"set_style", 3, FgRed>>, <<"write", 3, <<"x">>>>>>

\* The OpenSection and CloseSection nodes form a well-formed bracket
\* sequence: no prefix closes more than it opens, and the whole closes all.
Balanced(nodes) ==
    /\ \A m \in 1..Len(nodes) :
          CountOf(nodes, "CloseSection", 1, m) <= CountOf(nodes, "OpenSection", 1, m)
    /\ CountOf(nodes, "CloseSection", 1, Len(nodes))
          = CountOf(nodes, "OpenSection", 1, Len(nodes))

\* C11: on a document whose sections are balanced the pass never pops an
\* empty stack, its stack always holds exactly the names of the sections
\* open at the next node (each CloseSection removed the name its matching
\* OpenSection pushed), and it returns with an empty stack.
C11_BalancedNeverUnderflows ==
    (wstate # "build" /\ Balanced(Nodes)) =>
        /\ wstate # "panic"
        /\ wstate \in {"run", "err"} => nesting = OpenAt(Nodes, cursor)
        /\ wstate = "ok" => nesting = <<>>

C11_Witness ==
    /\ wstate = "ok"
    /\ Nodes = <<OpenSection(E), OpenSection(P), CloseSection, CloseSection>>
    /\ nesting = <<>>

\* C12: the pass over an unbalanced document never returns Ok.
C12_UnbalancedFails ==
    (wstate = "ok") => Balanced(Nodes)

\* A CloseSection met with an empty stack ends the pass in a panic.
StrayCloseStops ==
    (wstate # "build" /\ ~Balanced(Nodes) /\ wstate = "ok") =>
        \A m \in 1..Len(Nodes) :
            CountOf(Nodes, "CloseSection", 1, m) <= CountOf(Nodes, "OpenSection", 1, m)

----------------------------------------------------------------------------
(* Claims about passes that share a sink or a stylesheet *)

\* The calls node i of a document causes in a pass of its own: they depend
\* on the document and the stylesheet only.
CallsAt(sheet, nodes, i) ==
    IF i > Len(nodes) THEN <<>>
    ELSE IF nodes[i][1] = "Text" /\ Len(nodes[i][2]) # 0
    THEN <<StyleCall(i, SheetGet(sheet, OpenAt(nodes, i))), <<"write", i, nodes[i][2]>>>>
    ELSE IF nodes[i][1] = "Newline"
    THEN <<<<"reset", i>>, <<"write", i, <<"\n">>>>>>
    ELSE <<>>

RECURSIVE CallsUpTo(_, _, _)
CallsUpTo(sheet, nodes, n) ==
    IF n = 0 THEN <<<<"reset", 0>>>>
    ELSE CallsUpTo(sheet, nodes, n - 1) \o CallsAt(sheet, nodes, n)

IsPrefix(s1, s2) == Len(s1) <= Len(s2) /\ SubSeq(s2, 1, Len(s1)) = s1

\* The calls a pass with these frames has made on a sink that had received
\* b calls before it.
AloneCalls(sheet, nodes, state, at, calls, b) ==
    LET mine == SubSeq(calls, b + 1, Len(calls)) IN
    /\ state \in {"run", "ok", "panic"} => mine = CallsUpTo(sheet, nodes, at - 1)
    /\ state = "err" => IsPrefix(mine, CallsUpTo(sheet, nodes, at))
                         /\ mine # CallsUpTo(sheet, nodes, at)

\* C13: every pass, the one over an empty document included, first resets
\* the sink and starts from an empty stack, so that on a sink that earlier
\* passes have used a pass makes exactly the calls it makes on a new sink,
\* whatever style and open sections the earlier passes left.
C13_PassStartsClean ==
    wstate # "build" =>
        /\ wstate # "err" => (Len(sink) > begun /\ sink[begun + 1] = <<"reset", 0>>)
        /\ (wstate = "run" /\ cursor = 1) => nesting = <<>>
        /\ AloneCalls(styles, Nodes, wstate, cursor, sink, begun)

\* A first pass left the style red and the section e open; the second pass
\* wrote its text after a reset.
C13_Witness ==
    /\ wstate = "ok"
    /\ begun = 3
    /\ Nodes = <<Text(<<"x">>)>>
    /\ sink = <<<<"reset", 0>>, <<"set_style", 2, FgRed>>, <<"write", 2, <<"x">>>>,
                <<"reset", 0>>, <<"reset", 1>>, <<"write", 1, <<"x">>>>>>

----------------------------------------------------------------------------
(* Claims about composing a Document *)

\* The step applied operation o; its operand is arg'[2].
Did(o) == arg' # <<>> /\ arg'[1] = o
Rendered == Did("render") \/ Did("add")

\* C14: extend yields the receiver's nodes followed by the other's, in
\* order; for a receiver without nodes the result is exactly the other
\* document, and for an other without nodes exactly the receiver.
C14_ExtendStep ==
    Did("extend") =>
        /\ Nodes' = Nodes \o DocNodes(arg'[2])
        /\ tree = DocumentEmpty => tree' = arg'[2]
        /\ arg'[2] = DocumentEmpty => tree' = tree

C14_ExtendConcatenates == [][C14_ExtendStep]_vars

C14_Witness ==
    /\ arg = <<"extend", Some(<<OpenSection(E), Text(X)>>)>>
    /\ tree = Some(<<Text(X), OpenSection(E), Text(X)>>)

\* C15: extend is associative and the empty document is its identity on
\* both sides; Combine(Combine(x, y), z) renders the nodes that
\* Combine(x, Combine(y, z)) renders.
C15_AssocStep ==
    /\ Did("extend") =>
          /\ \A c \in DocPool :
                DocNodes(DocExtend(tree', c))
                    = DocNodes(DocExtend(tree, DocExtend(arg'[2], c)))
          /\ arg'[2] = DocumentEmpty => Nodes' = Nodes
          /\ tree = DocumentEmpty => Nodes' = DocNodes(arg'[2])
    /\ Rendered =>
          \A x \in AssocPool, y \in AssocPool, z \in AssocPool :
              /\ arg'[2] = CombineR(CombineR(x, y), z)
                    => Nodes' = DocNodes(Render(CombineR(x, CombineR(y, z)), tree))
              /\ arg'[2] = CombineR(x, CombineR(y, z))
                    => Nodes' = DocNodes(Render(CombineR(CombineR(x, y), z), tree))

C15_ComposingAssociative == [][C15_AssocStep]_vars

C15_Witness ==
    /\ arg = <<"render", CombineR(CombineR(TextR(X), TextR(Y)), LineR(TextR(X)))>>
    /\ Nodes = <<Newline, Text(X), Text(Y), Text(X), Newline>>

\* C16: every operation and every rendering keeps the nodes the document
\* had, in place, as the beginning of the result.
C16_AdditiveStep == IsPrefix(Nodes, Nodes')

C16_ComposingOnlyAppends == [][C16_AdditiveStep]_vars

C16_Witness ==
    /\ arg = <<"render", JoinR(<<X, Y>>, Comma, CallbackLine)>>
    /\ Nodes = <<OpenSection(E), Text(X), Newline, Text(Comma), Text(Y), Newline>>

\* The nodes a renderable, and a callback for an item, give to an empty
\* document.
NodesOf(r) == DocNodes(IntoFragment(r))
ItemNodes(callback, item) == DocNodes(Callback(callback, item, DocumentEmpty))

\* C17: rendering a Section appends OpenSection(name), the nodes of its
\* content and one CloseSection, in that order; a balanced content in a
\* balanced document gives a balanced document, and so does every value
\* built from text, Line, Section, Each, Join, Combine and IfSome only.
C17_SectionStep ==
    Rendered =>
        /\ arg'[2][1] = "section" =>
              /\ Nodes' = Nodes \o <<OpenSection(arg'[2][2])>>
                                \o NodesOf(arg'[2][3]) \o <<CloseSection>>
              /\ (Balanced(Nodes) /\ Balanced(NodesOf(arg'[2][3]))) => Balanced(Nodes')
        /\ arg'[2][1] = "section_block" =>
              /\ Nodes' = Nodes \o <<OpenSection(arg'[2][2])>>
                                \o ItemNodes(arg'[2][3], <<>>) \o <<CloseSection>>
              /\ (Balanced(Nodes) /\ Balanced(ItemNodes(arg'[2][3], <<>>)))
                    => Balanced(Nodes')
        /\ (arg'[2] \in BlockPool /\ Balanced(Nodes)) => Balanced(Nodes')

C17_SectionBrackets == [][C17_SectionStep]_vars

C17_Witness ==
    /\ arg = <<"render", SectionR(E, SectionR(P, TextR(X)))>>
    /\ Nodes = <<Text(X), OpenSection(E), OpenSection(P), Text(X), CloseSection,
                 CloseSection>>

\* What Join is to append for the first n items: the nodes of each item in
\* order, with the joiner's text before every item but the first.
RECURSIVE JoinedUpTo(_, _, _, _)
JoinedUpTo(items, joiner, callback, n) ==
    IF n = 0 THEN <<>>
    ELSE JoinedUpTo(items, joiner, callback, n - 1)
             \o (IF n > 1 THEN <<Text(joiner)>> ELSE <<>>)
             \o ItemNodes(callback, items[n])

\* The number of nodes of the sequence equal to node
Occurs(nodes, node) == Cardinality({i \in 1..Len(nodes) : nodes[i] = node})

\* C18: Join appends the renderings of its items in order with the
\* joiner's text between consecutive items: it adds the joiner
\* max(n - 1, 0) times, never first and never last, and nothing for n = 0.
C18_JoinStep ==
    (Rendered /\ arg'[2][1] = "join") =>
        LET items == arg'[2][2]
            joiner == arg'[2][3]
            added == SubSeq(Nodes', Len(Nodes) + 1, Len(Nodes'))
        IN /\ Nodes' = Nodes \o JoinedUpTo(items, joiner, arg'[2][4], Len(items))
           /\ Occurs(added, Text(joiner)) = IF Len(items) = 0 THEN 0 ELSE Len(items) - 1
           /\ Len(items) = 0 => tree' = tree
           /\ Len(items) > 0 => /\ added[1] # Text(joiner)
                                 /\ added[Len(added)] # Text(joiner)

C18_JoinerBetweenItems == [][C18_JoinStep]_vars

C18_Witness ==
    /\ arg = <<"render", JoinR(<<X, Y, X>>, Comma, CallbackAdd)>>
    /\ Nodes = <<Text(X), Text(Comma), Text(Y), Text(Comma), Text(X)>>

\* What Each is to append for the first n items
RECURSIVE EachUpTo(_, _, _)
EachUpTo(items, callback, n) ==
    IF n = 0 THEN <<>>
    ELSE EachUpTo(items, callback, n - 1) \o ItemNodes(callback, items[n])

\* C19: Each gives every item to the callback once, first to last, passing
\* the document along: the result is the document's nodes followed by the
\* renderings of the items in order, and the document itself for no items.
C19_EachStep ==
    (Rendered /\ arg'[2][1] = "each") =>
        /\ Nodes' = Nodes \o EachUpTo(arg'[2][2], arg'[2][3], Len(arg'[2][2]))
        /\ Len(arg'[2][2]) = 0 => tree' = tree

C19_EachInOrder == [][C19_EachStep]_vars

C19_Witness ==
    /\ arg = <<"render", EachR(<<X, Y, Y>>, CallbackLine)>>
    /\ Nodes = <<Text(X), Newline, Text(Y), Newline, Text(Y), Newline>>

----------------------------------------------------------------------------
(* Claims about passes that share a stylesheet *)

\* A pass with these frames has made the calls of a pass of its own, and
\* while it runs its stack holds the sections open in its own document.
PassAlone(f) ==
    f[5] # "build" =>
        /\ AloneCalls(styles, DocNodes(f[1]), f[5], f[3], f[4], f[6])
        /\ f[5] = "run" => f[2] = OpenAt(DocNodes(f[1]), f[3])

\* A step of one call leaves the frames of the other call as they were.
OtherUntouched ==
    \/ parked' = parked
    \/ parked' = Frames /\ Frames' = parked

\* C20: a lookup changes no node, child map or stored style of the
\* stylesheet, so of two passes over different documents that take their
\* steps in any order on the same stylesheet each makes exactly the calls
\* it makes alone, and no step of one reads or changes the stack of the
\* other.
C20_StylesheetReadOnly ==
    /\ [](PassAlone(Frames) /\ PassAlone(parked))
    /\ [][styles' = styles /\ OtherUntouched]_vars

\* One pass has written its text outside every section while the other
\* is in the middle of its document, inside the section e.
C20_Witness ==
    /\ wstate = "ok"
    /\ Nodes = <<Text(<<"x">>)>>
    /\ sink = <<<<"reset", 0>>, <<"reset", 1>>, <<"write", 1, <<"x">>>>>>
    /\ parked = <<Some(<<OpenSection(E), Text(<<"x">>)>>), <<E>>, 2, <<<<"reset", 0>>>>, "run", 0>>

----------------------------------------------------------------------------
(* Claims about the patterns a stylesheet accepts *)

\* A pattern with an empty part: the empty pattern, or one with a space at
\* either end or two spaces in a row.
Malformed(name) == \E i \in 1..Len(Split(name)) : Split(name)[i] = <<>>

WellFormedEntry(e) == ~Malformed(e.name)

\* C21: an add with a malformed pattern leaves the rules of the stylesheet
\* as they were: the stylesheet is the one built by the add calls with
\* well-formed patterns alone.
C21_MalformedRejected ==
    styles = Build(SelectSeq(log, WellFormedEntry))

----------------------------------------------------------------------------
(* Claims about a stylesheet of two rules *)

\* Name is more specific than Star, Star than Glob.
Rank(seg) == IF seg = Glob THEN 1 ELSE IF seg = Star THEN 2 ELSE 3

Globs(r) == {i \in 1..Len(r) : r[i] = Glob}

\* The segment of rule r that matches position i of a path of n names, for
\* a rule with at most one glob that matches the path: the glob matches the
\* n - (Len(r) - 1) names that the other segments leave.
SegmentAt(r, n, i) ==
    IF Globs(r) = {} THEN r[i]
    ELSE LET g == CHOOSE k \in Globs(r) : TRUE
             w == n - (Len(r) - 1)
         IN IF i < g THEN r[i]
            ELSE IF i < g + w THEN Glob
            ELSE r[i - w + 1]

MoreSpecificAt(r1, r2, n, i) == Rank(SegmentAt(r1, n, i)) > Rank(SegmentAt(r2, n, i))

\* r1 is the more specific rule at the first position where the two
\* differ, r2 at a later position.
CrossedWith(r1, r2, n) ==
    \E i \in 1..n :
        /\ MoreSpecificAt(r1, r2, n, i)
        /\ \A k \in 1..(i - 1) : Rank(SegmentAt(r1, n, k)) = Rank(SegmentAt(r2, n, k))
        /\ \E j \in (i + 1)..n : MoreSpecificAt(r2, r1, n, j)

\* C22: when the two rules of the stylesheet match the path, one the more
\* specific at an earlier position and the other at a later one, the result
\* has the value of the first in every slot both set.
C22_EarlierPositionWins ==
    op = "get" =>
        \A r1 \in MatchingRules(styles, names), r2 \in MatchingRules(styles, names) :
            (/\ Rules(styles) = {r1, r2}
             /\ Cardinality(Globs(r1)) <= 1
             /\ Cardinality(Globs(r2)) <= 1
             /\ CrossedWith(r1, r2, Len(names)))
            => \A slot \in Slots :
                   (StyleOf(r1)[slot] # Unset /\ StyleOf(r2)[slot] # Unset)
                   => (IsSome(found) /\ Unwrap(found)[slot] = StyleOf(r1)[slot])

\* The same for two rules whose glob, if any, ends the rule or is followed
\* by a literal.
EarlierPositionWinsGlobBeforeLiteral ==
    op = "get" =>
        \A r1 \in MatchingRules(styles, names), r2 \in MatchingRules(styles, names) :
            (/\ Rules(styles) = {r1, r2}
             /\ Cardinality(Globs(r1)) <= 1
             /\ Cardinality(Globs(r2)) <= 1
             /\ GlobBeforeLiteral(r1)
             /\ GlobBeforeLiteral(r2)
             /\ CrossedWith(r1, r2, Len(names)))
            => \A slot \in Slots :
                   (StyleOf(r1)[slot] # Unset /\ StyleOf(r2)[slot] # Unset)
                   => (IsSome(found) /\ Unwrap(found)[slot] = StyleOf(r1)[slot])

----------------------------------------------------------------------------
(* Claims about the trie *)

\* The key of the node that the literal children lead to for a path
LiteralKey(ns) == [i \in 1..Len(ns) |-> Name(ns[i])]

\* No node on the way to the key, the root included, has a Star or a Glob
\* child: the lookup reaches the node of the key and no other node.
OnlyLiteralWay(t, key) ==
    \A m \in 0..(Len(key) - 1) :
        /\ Append(SubSeq(key, 1, m), Star) \notin DOMAIN t
        /\ Append(SubSeq(key, 1, m), Glob) \notin DOMAIN t

\* C23: a node at which the path is exhausted contributes its own style
\* when it has no children, the style of its Glob child when it has one,
\* and none when it has children of which none is a Glob, whatever style
\* the node itself stores.
C23_TerminalRule ==
    LET key == LiteralKey(names) IN
    (op = "get" /\ key \in DOMAIN styles /\ OnlyLiteralWay(styles, key)) =>
        found =
            IF \A k \in DOMAIN styles :
                   ~(Len(k) = Len(key) + 1 /\ SubSeq(k, 1, Len(key)) = key)
            THEN styles[key]
            ELSE IF Append(key, Glob) \in DOMAIN styles
            THEN styles[Append(key, Glob)]
            ELSE NoneOpt

\* The node a stores a style and has the child a: get([a]) returns none.
C23_Witness ==
    /\ op = "get"
    /\ names = <<A>>
    /\ <<Name(A), Name(A)>> \in DOMAIN styles
    /\ IsSome(styles[<<Name(A)>>])
    /\ Append(<<Name(A)>>, Glob) \notin DOMAIN styles
    /\ found = NoneOpt

\* C24: no node whose segment is Glob has a Glob child.
C24_NoGlobAfterGlob ==
    \A k \in DOMAIN styles :
        (k # RootKey /\ SegmentOf(k) = Glob) => Append(k, Glob) \notin DOMAIN styles

----------------------------------------------------------------------------
(* Claims about what a pass writes *)

\* Every write follows a style decision made for the same node, and the
\* write for a Newline is one line terminator that follows a reset.
FreshStyleBeforeWrite ==
    \A k \in 1..Len(sink) :
        sink[k][1] = "write" =>
            /\ k > 1
            /\ sink[k - 1][1] \in {"reset", "set_style"}
            /\ sink[k - 1][2] = sink[k][2]
            /\ Nodes[sink[k][2]][1] = "Newline" =>
                  /\ sink[k - 1] = <<"reset", sink[k][2]>>
                  /\ sink[k][3] = <<"\n">>
                  /\ \A j \in 1..Len(sink) :
                        (sink[j][1] = "write" /\ sink[j][2] = sink[k][2]) => j = k

\* The step for a Newline leaves the stack as it is.
NewlineKeepsStack ==
    (wstate = "run" /\ cursor <= Len(Nodes) /\ Item[1] = "Newline") => nesting' = nesting

\* C25: for a Newline the pass resets the style of the sink and then writes
\* one line terminator, with the stack unchanged; the terminator and the
\* first text after it are each written after a style decision of their
\* own, never in a style set for text before.
C25_NewlineResets == [](FreshStyleBeforeWrite) /\ [][NewlineKeepsStack]_vars

\* Text was written blue inside the section g, then the reset and the
\* line terminator.
C25_Witness ==
    /\ wstate = "ok"
    /\ Nodes = <<OpenSection(G), Text(<<"x">>), Newline, CloseSection>>
    /\ nesting = <<>>
    /\ sink = <<<<"reset", 0>>, <<"set_style", 2, FgBlue>>, <<"write", 2, <<"x">>>>,
                <<"reset", 3>>, <<"write", 3, <<"\n">>>>>>

\* The strings the first n nodes of a document are to write: each Text
\* that is not empty, and a line terminator for each Newline.
RECURSIVE TextUpTo(_, _)
TextUpTo(nodes, n) ==
    IF n = 0 THEN <<>>
    ELSE TextUpTo(nodes, n - 1)
             \o (IF nodes[n][1] = "Text" /\ nodes[n][2] # <<>> THEN <<nodes[n][2]>>
                 ELSE IF nodes[n][1] = "Newline" THEN <<<<"\n">>>>
                 ELSE <<>>)

IsWrite(call) == call[1] = "write"

\* The strings written to the sink, in order
Written ==
    LET writes == SelectSeq(sink, IsWrite) IN [k \in 1..Len(writes) |-> writes[k][3]]

\* C26: whatever the stylesheet, the strings a pass has written are the
\* non-empty Text strings and a line terminator per Newline of the nodes it
\* has processed, in document order, and no call to the sink is made for an
\* empty Text.
C26_TextIgnoresStylesheet ==
    /\ wstate \in {"run", "ok", "panic"} => Written = TextUpTo(Nodes, cursor - 1)
    /\ wstate = "err" =>
          IsPrefix(Written, TextUpTo(Nodes, IF cursor <= Len(Nodes) THEN cursor ELSE 0))
    /\ wstate = "ok" => Written = TextUpTo(Nodes, Len(Nodes))
    /\ \A k \in 1..Len(sink) : sink[k][2] # 0 => Nodes[sink[k][2]] # Text(<<>>)

\* With the stylesheet that styles the section g, and an empty Text on the
\* way, the pass wrote "x" and the line terminator.
C26_Witness ==
    /\ wstate = "ok"
    /\ styles = ScenarioSheet
    /\ Nodes = <<OpenSection(G), Text(<<"x">>), Text(<<>>), Newline>>
    /\ Written = <<<<"x">>, <<"\n">>>>
    /\ Len(sink) = 5

----------------------------------------------------------------------------
(* Claims about the order of the add calls *)

DistinctNames(l) == \A i \in 1..Len(l), j \in 1..Len(l) : i # j => l[i].name # l[j].name

\* The add calls of l in the order f
Reordered(l, f) == [i \in 1..Len(l) |-> l[f[i]]]

\* C27: when the patterns added are pairwise different, the stylesheet
\* built by the same add calls in any other order returns for the path what
\* this one returned.
C27_AddOrderIrrelevant ==
    (op = "get" /\ DistinctNames(log)) =>
        \A f \in Permutations(1..Len(log)) :
            SheetGet(Build(Reordered(log, f)), names) = found

C27_Witness ==
    /\ op = "get"
    /\ Len(log) = 3
    /\ DistinctNames(log)
    /\ log[1].name = Join(<<A, A>>)
    /\ log[2].name = A
    /\ log[1].style # log[2].style
    /\ names = <<A, A>>
    /\ found = Some(log[1].style)

----------------------------------------------------------------------------
(* Claims about the tree of a Document *)

\* A tree that is present holds at least one node.
TreePresentHasNodes == IsSome(tree) => Len(Unwrap(tree)) > 0

\* extend with a document without nodes and extend_nodes with no nodes
\* leave an absent tree absent.
EmptyExtendKeepsAbsent ==
    (/\ tree = DocumentEmpty
     /\ \/ Did("extend") /\ arg'[2] = DocumentEmpty
        \/ Did("extend_nodes") /\ arg'[2] = <<>>)
    => tree' = DocumentEmpty

\* C30: whatever sequence of add, add_node, extend_nodes and extend built a
\* Document from the empty one, its tree is absent exactly when it has no
\* node, and extending by nothing never makes an absent tree present.
C30_TreeAbsentIffNoNodes == [](TreePresentHasNodes) /\ [][EmptyExtendKeepsAbsent]_vars

\* extend_nodes with no nodes has acted on a document without a tree.
C30_Witness ==
    /\ arg # <<>>
    /\ arg[1] = "extend_nodes"
    /\ arg[2] = <<>>
    /\ tree = DocumentEmpty

----------------------------------------------------------------------------
(* Claims about failures of the sink *)

\* The number of calls a pass makes on its sink for the first n nodes, the
\* reset before the loop included.
RECURSIVE CallCount(_, _)
CallCount(nodes, n) ==
    IF n = 0 THEN 1
    ELSE CallCount(nodes, n - 1) +
         (IF n > Len(nodes) THEN 0
          ELSE IF nodes[n][1] = "Text" /\ Len(nodes[n][2]) # 0 THEN 2
          ELSE IF nodes[n][1] = "Newline" THEN 2
          ELSE 0)

\* A pass that returned Ok has gone through every node and made every
\* call; a pass that returned an error has made the calls of the nodes
\* before the one at which it stopped, fewer calls than that node takes,
\* and none for a later node.
ErrorStops ==
    /\ wstate = "ok" =>
          /\ cursor > Len(Nodes) \/ tree = NoneOpt
          /\ Len(sink) = CallCount(Nodes, Len(Nodes))
    /\ wstate = "err" =>
          /\ \/ sink = <<>>
             \/ /\ cursor <= Len(Nodes)
                /\ CallCount(Nodes, cursor - 1) <= Len(sink)
                /\ Len(sink) < CallCount(Nodes, cursor)
          /\ \A k \in 1..Len(sink) : sink[k][2] <= cursor

\* A pass that has returned makes no call and stays returned.
ReturnIsFinal ==
    wstate \in {"ok", "err"} => (sink' = sink /\ wstate' = wstate /\ cursor' = cursor)

\* C29: a failed call on the sink ends the pass with the error at once, with
\* no call after it, and the pass returns Ok only after the last node.
C29_SinkErrorStopsPass == [](ErrorStops) /\ [][ReturnIsFinal]_vars

\* A pass stopped by a failed write, with a node left that would have
\* made calls.
C29_Witness ==
    /\ wstate = "err"
    /\ Len(sink) = 2
    /\ cursor < Len(Nodes)
    /\ CallCount(Nodes, Len(Nodes)) > CallCount(Nodes, cursor)

----------------------------------------------------------------------------
(* Claims about Style and ColorSpec *)

\* C28: the Style made from the ColorSpec of a Style is that Style, and
\* the ColorSpec has the foreground and the background of the Style.
C28_RoundTrip ==
    /\ Len(conv) >= 2 => /\ conv[2].fg = conv[1].foreground
                          /\ conv[2].bg = conv[1].background
    /\ Len(conv) = 3 => conv[3] = conv[1]

\* The same for a Style without a background.
RoundTripWithoutBackground ==
    (Len(conv) = 3 /\ conv[1].background = NoneOpt) => conv[3] = conv[1]

====
